---------------------------- MODULE Spec2Model ----------------------------
(***************************************************************************)
(* Model of gactk-rs: the tiling notation of src/geometry/antwerp.rs       *)
(* (Configuration, its Display and TryFrom<&str> implementations).         *)
(*                                                                         *)
(* A text is a sequence of one-character strings.  usize is modelled with  *)
(* UsizeBits bits, so that usize::MAX and values just above it can be      *)
(* written down and parsed.                                                *)
(***************************************************************************)
EXTENDS Integers, Sequences, FiniteSets

(* ------------------------------ bounds -------------------------------- *)

\* width of usize in the model
UsizeBits == 5

\* largest number of transformation strings in an input text or literal
MaxTransformations == 2

\* largest iteration count given to generate
MaxIterations == 1

\* largest number of sides given to the tile helpers
MaxSides == 13

\* the longest vertex list given to Poly2::new
MaxVertices == 5

\* the number of vertices by which the start of a polygon is moved on
MaxShift == 7

\* the bits of the significand of a coefficient (f64 has 53)
FloatBits == 3

\* the longest coefficient list given to Polynomial::new
MaxCoefficients == 3

(* ------------------------- std: integers, text ------------------------ *)

UsizeMax == 2^UsizeBits - 1

DigitChars == <<"0", "1", "2", "3", "4", "5", "6", "7", "8", "9">>

IsDigit(c) == \E d \in 1..10 : DigitChars[d] = c

DigitValue(c) == (CHOOSE d \in 1..10 : DigitChars[d] = c) - 1

None == <<>>

Some(v) == <<v>>

\* <usize as FromStr>::from_str: checked accumulation of the digits
RECURSIVE from_str_digits(_, _)
from_str_digits(digits, acc) ==
    IF digits = <<>> THEN Some(acc)
    ELSE IF ~IsDigit(Head(digits)) THEN None
    ELSE LET next == acc * 10 + DigitValue(Head(digits))
         IN  IF next > UsizeMax THEN None
             ELSE from_str_digits(Tail(digits), next)

\* str::parse::<usize>: an optional '+' and at least one digit; None is Err
parse_usize(src) ==
    IF src = <<>> THEN None
    ELSE IF Head(src) = "+"
         THEN IF Tail(src) = <<>> THEN None ELSE from_str_digits(Tail(src), 0)
         ELSE from_str_digits(src, 0)

\* usize::to_string: decimal digits, produced from the least significant
RECURSIVE fmt_usize(_, _)
fmt_usize(n, buf) ==
    IF n < 10 THEN <<DigitChars[n + 1]>> \o buf
    ELSE fmt_usize(n \div 10, <<DigitChars[(n % 10) + 1]>> \o buf)

usize_to_string(n) == fmt_usize(n, <<>>)

\* str::split on a one-character pattern: always at least one piece
RECURSIVE split_from(_, _, _)
split_from(s, pat, current) ==
    IF s = <<>> THEN <<current>>
    ELSE IF Head(s) = pat THEN <<current>> \o split_from(Tail(s), pat, <<>>)
    ELSE split_from(Tail(s), pat, Append(current, Head(s)))

split(s, pat) == split_from(s, pat, <<>>)

\* [String]::join
RECURSIVE join(_, _)
join(strings, sep) ==
    IF strings = <<>> THEN <<>>
    ELSE IF Len(strings) = 1 THEN Head(strings)
    ELSE Head(strings) \o <<sep>> \o join(Tail(strings), sep)

(* ------------------------------ data model ---------------------------- *)

Corner(index) == [tag |-> "Corner", index |-> index]

Centre(index) == [tag |-> "Centre", index |-> index]

Edge(index) == [tag |-> "Edge", index |-> index]

Origin(angle_option) == [tag |-> "Origin", arg |-> angle_option]

Vertex(vertex_type) == [tag |-> "Vertex", arg |-> vertex_type]

Rotation(source) == [tag |-> "Rotation", source |-> source]

Reflection(source) == [tag |-> "Reflection", source |-> source]

Configuration_new(seed, phases, transformations) ==
    [seed |-> seed, phases |-> phases, transformations |-> transformations]

Ok(value) == [tag |-> "Ok", value |-> value]

Err(message) == [tag |-> "Err", value |-> message]

MissingTransformations == "Configuration string must have at least one transformation"

InvalidSeed == "Invalid seed in configuration string"

InvalidShape == "Invalid shape in configuration string"

UnknownTransformationChar == "Unknown transformation character in configuration string"

UnknownVertexTypeChar == "Unknown vertex type character in configuration string"

InvalidVertexIndex == "Invalid vertex index in configuration string"

EmptyVertexSpecifier == "Empty vertex specifier in configuration string"

EmptyTransformation == "Empty transformation in configuration string"

(* ------------------------------- Display ------------------------------ *)

\* faulty variant: Edge is written with 'e'
VertexType_fmt_edge_letter(self) ==
    CASE self.tag = "Corner" -> <<"v">> \o usize_to_string(self.index)
      [] self.tag = "Centre" -> <<"c">> \o usize_to_string(self.index)
      [] self.tag = "Edge"   -> <<"e">> \o usize_to_string(self.index)

VertexType_fmt(self) ==
    CASE self.tag = "Corner" -> <<"v">> \o usize_to_string(self.index)
      [] self.tag = "Centre" -> <<"c">> \o usize_to_string(self.index)
      [] self.tag = "Edge"   -> <<"h">> \o usize_to_string(self.index)

TransformationSource_fmt(self) ==
    IF self.tag = "Origin"
    THEN IF self.arg # None THEN usize_to_string(self.arg[1]) ELSE <<>>
    ELSE <<"(">> \o VertexType_fmt(self.arg) \o <<")">>

Transformation_fmt(self) ==
    IF self.tag = "Rotation"
    THEN <<"r">> \o TransformationSource_fmt(self.source)
    ELSE <<"m">> \o TransformationSource_fmt(self.source)

\* faulty variant: the separator is pushed whether or not there are phases
phases_separator_unconditional(phases) == <<"-">>

\* the separator pushed between the seed and the phases
phases_separator(phases) == IF Len(phases) > 0 THEN <<"-">> ELSE <<>>

phase_fmt(phase) ==
    join([k \in 1..Len(phase) |-> usize_to_string(phase[k])], ",")

Configuration_fmt(self) ==
    usize_to_string(self.seed)
    \o phases_separator(self.phases)
    \o join([k \in 1..Len(self.phases) |-> phase_fmt(self.phases[k])], "-")
    \o <<"/">>
    \o join([k \in 1..Len(self.transformations) |->
                Transformation_fmt(self.transformations[k])], "/")

(* ------------------------------- TryFrom ------------------------------ *)

\* faulty variant: a text without '/' is let through
too_few_command_strings_off_by_one(command_strings) ==
    Len(command_strings) < 1

\* the test on the number of '/'-pieces
too_few_command_strings(command_strings) == Len(command_strings) < 2

\* the inner loop over the comma-separated shapes of one phase
RECURSIVE shapes_loop(_, _)
shapes_loop(shape_strings, phase) ==
    IF shape_strings = <<>> THEN Ok(phase)
    ELSE LET shape_parse_result == parse_usize(Head(shape_strings))
         IN  IF shape_parse_result # None
             THEN shapes_loop(Tail(shape_strings),
                              Append(phase, shape_parse_result[1]))
             ELSE Err(InvalidShape)

\* the loop over the '-'-segments; seed = usize::MAX means "no seed yet"
RECURSIVE phases_loop(_, _, _)
phases_loop(phases_strings, seed, phases) ==
    IF phases_strings = <<>>
    THEN Ok([seed |-> seed, phases |-> phases])
    ELSE LET phase_string == Head(phases_strings)
         IN  IF seed = UsizeMax
             THEN LET phase_string_result == parse_usize(phase_string)
                  IN  IF phase_string_result # None
                      THEN phases_loop(Tail(phases_strings),
                                       phase_string_result[1], phases)
                      ELSE Err(InvalidSeed)
             ELSE LET phase == shapes_loop(split(phase_string, ","), <<>>)
                  IN  IF phase.tag = "Ok"
                      THEN phases_loop(Tail(phases_strings), seed,
                                       Append(phases, phase.value))
                      ELSE phase

\* faulty variant: the two kinds are exchanged
push_transformation_swapped(transformation_type_char, source) ==
    CASE transformation_type_char = "r" -> Ok(Reflection(source))
      [] transformation_type_char = "m" -> Ok(Rotation(source))
      [] OTHER -> Err(UnknownTransformationChar)

push_transformation(transformation_type_char, source) ==
    CASE transformation_type_char = "r" -> Ok(Rotation(source))
      [] transformation_type_char = "m" -> Ok(Reflection(source))
      [] OTHER -> Err(UnknownTransformationChar)

\* chars.next(); chars.next_back(); chars.as_str()
vertex_string_of(transformation_source_string) ==
    IF Len(transformation_source_string) < 2 THEN <<>>
    ELSE SubSeq(transformation_source_string, 2,
                Len(transformation_source_string) - 1)

\* the vertex specifier: the index is parsed before the type is matched
parse_vertex_source(transformation_type_char, vertex_string) ==
    IF vertex_string # <<>>
    THEN LET vertex_type_char == Head(vertex_string)
             vertex_index_numeric_parse_result ==
                 parse_usize(Tail(vertex_string))
         IN  IF vertex_index_numeric_parse_result # None
             THEN LET index == vertex_index_numeric_parse_result[1]
                  IN  CASE vertex_type_char = "v" ->
                             push_transformation(transformation_type_char,
                                                 Vertex(Corner(index)))
                        [] vertex_type_char = "c" ->
                             push_transformation(transformation_type_char,
                                                 Vertex(Centre(index)))
                        [] vertex_type_char = "h" ->
                             push_transformation(transformation_type_char,
                                                 Vertex(Edge(index)))
                        [] OTHER -> Err(UnknownVertexTypeChar)
             ELSE Err(InvalidVertexIndex)
    ELSE Err(EmptyVertexSpecifier)

\* a non-empty transformation string: its first character and the rest
parse_transformation_chars(transformation_type_char, transformation_source_string) ==
    IF Len(transformation_source_string) = 0
    THEN push_transformation(transformation_type_char, Origin(None))
    ELSE LET transformation_source_numeric_parse_result ==
                 parse_usize(transformation_source_string)
         IN  IF transformation_source_numeric_parse_result # None
             THEN push_transformation(transformation_type_char,
                     Origin(Some(transformation_source_numeric_parse_result[1])))
             ELSE parse_vertex_source(transformation_type_char,
                     vertex_string_of(transformation_source_string))

\* faulty variant: an empty string falls through to the kind character's error
parse_transformation_no_empty_error(transformation_string) ==
    IF transformation_string # <<>>
    THEN parse_transformation_chars(Head(transformation_string),
                                    Tail(transformation_string))
    ELSE Err(UnknownTransformationChar)

\* the body of the loop over the transformation strings
parse_transformation(transformation_string) ==
    IF transformation_string # <<>>
    THEN parse_transformation_chars(Head(transformation_string),
                                    Tail(transformation_string))
    ELSE Err(EmptyTransformation)

\* faulty variant: the strings after an invalid one are looked at first
RECURSIVE transformations_loop_rightmost_error(_, _)
transformations_loop_rightmost_error(command_strings, transformations) ==
    IF command_strings = <<>> THEN Ok(transformations)
    ELSE LET result == parse_transformation(Head(command_strings))
             rest == transformations_loop_rightmost_error(
                         Tail(command_strings),
                         IF result.tag = "Ok"
                         THEN Append(transformations, result.value)
                         ELSE transformations)
         IN  IF rest.tag = "Err" THEN rest
             ELSE IF result.tag = "Err" THEN result
             ELSE rest

\* faulty variant: empty strings are skipped
RECURSIVE transformations_loop_skip_empty(_, _)
transformations_loop_skip_empty(command_strings, transformations) ==
    IF command_strings = <<>> THEN Ok(transformations)
    ELSE IF Head(command_strings) = <<>>
    THEN transformations_loop_skip_empty(Tail(command_strings), transformations)
    ELSE LET result == parse_transformation(Head(command_strings))
         IN  IF result.tag = "Ok"
             THEN transformations_loop_skip_empty(Tail(command_strings),
                                       Append(transformations, result.value))
             ELSE result

\* the loop over the transformation strings, stopping at the first error
RECURSIVE transformations_loop(_, _)
transformations_loop(command_strings, transformations) ==
    IF command_strings = <<>> THEN Ok(transformations)
    ELSE LET result == parse_transformation(Head(command_strings))
         IN  IF result.tag = "Ok"
             THEN transformations_loop(Tail(command_strings),
                                       Append(transformations, result.value))
             ELSE result

try_from(value) ==
    LET command_strings == split(value, "/")
    IN  IF too_few_command_strings(command_strings)
        THEN Err(MissingTransformations)
        ELSE LET seed_and_phases ==
                     phases_loop(split(Head(command_strings), "-"),
                                 UsizeMax, <<>>)
             IN  IF seed_and_phases.tag = "Err" THEN seed_and_phases
                 ELSE LET transformations ==
                              transformations_loop(Tail(command_strings), <<>>)
                      IN  IF transformations.tag = "Err" THEN transformations
                          ELSE Ok(Configuration_new(
                                     seed_and_phases.value.seed,
                                     seed_and_phases.value.phases,
                                     transformations.value))

(* ------------------------------- inputs ------------------------------- *)

MaxText == usize_to_string(UsizeMax)

OverflowText == usize_to_string(UsizeMax + 1)

\* the texts given before the first '/'
SeedAndPhasesStrings ==
    { <<"3">>,
      <<"1", "2", "-", "6", ",", "4">>,
      <<"6", "-", "3", ",", "0", ",", "3">>,
      <<"3", "-", "6", "-", "4", ",", "3">>,
      <<"+", "3", "-", "0", "4">>,
      <<"x">>,
      <<>>,
      <<"3", "-", "x">>,
      <<"3", "-">>,
      <<"3", "-", "4", ",">>,
      MaxText,
      MaxText \o <<"-", "3">>,
      MaxText \o <<"-", "x">>,
      OverflowText }

\* the texts given between two '/' or after the last one
TransformationStrings ==
    { <<>>,
      <<"r">>,
      <<"m">>,
      <<"x">>,
      <<"m", "3", "0">>,
      <<"r", "+", "3">>,
      <<"x", "3", "0">>,
      <<"r", "(", "h", "2", ")">>,
      <<"m", "(", "c", "2", ")">>,
      <<"r", "(", "v", "1", "5", ")">>,
      <<"r", "(", "x", "2", ")">>,
      <<"r", "(", "x", "y", ")">>,
      <<"x", "(", "h", "2", ")">>,
      <<"x", "(", "x", "2", ")">>,
      <<"m", "(", ")">>,
      <<"r", "(">>,
      <<"r", "(", "v", ")">>,
      <<"r", "[", "v", "2", "]">>,
      <<"m", "(", "h">> \o OverflowText \o <<")">> }

\* sequences of at most n elements of S
SeqUpTo(S, n) == UNION { [1..k -> S] : k \in 0..n }

\* a text: a first piece and at most MaxTransformations further pieces
text_of(first, rest) == join(<<first>> \o rest, "/")

\* configurations assembled as literals
LiteralSeeds == {0, 3, UsizeMax}

LiteralPhases ==
    { <<>>, << <<6, 4>> >>, << <<3, 0, 3>>, <<UsizeMax>> >>, << <<>> >> }

LiteralTransformations ==
    { Rotation(Origin(None)),
      Reflection(Origin(Some(30))),
      Rotation(Vertex(Edge(2))),
      Reflection(Vertex(Centre(2))),
      Rotation(Vertex(Corner(15))) }

(* ---------------------------- state machine --------------------------- *)

\* the notation: a text or a literal, its Configuration, its text again
VARIABLES pc, origin, value, result, formatted, reparsed

\* Lattice::generate: its arguments, its locals, its position, its outcome
VARIABLES g_pc, config, iterations, phase_index, shape_index, tiles,
          connectors, placements, calls, lattice, first_lattice, helpers

\* a call into the geometry or polynomial library: the operation, its
\* arguments and its outcome; and the two polynomials at hand
VARIABLES call, left, right

notation_vars == <<pc, origin, value, result, formatted, reparsed>>

generator_vars ==
    <<g_pc, config, iterations, phase_index, shape_index, tiles,
      connectors, placements, calls, lattice, first_lattice, helpers>>

library_vars == <<call, left, right>>

vars == <<notation_vars, generator_vars, library_vars>>

NoResult == [tag |-> "None", value |-> ""]

NoConfiguration == Configuration_new(0, <<>>, <<>>)

NoCall == [op |-> "none"]

\* Polynomial { coefficients }
Polynomial(coefficients) == [coefficients |-> coefficients]

Init ==
    /\ pc = "start"
    /\ origin = "none"
    /\ value = <<>>
    /\ result = NoResult
    /\ formatted = <<>>
    /\ reparsed = NoResult
    /\ g_pc = "idle"
    /\ config = NoConfiguration
    /\ iterations = 0
    /\ phase_index = 1
    /\ shape_index = 1
    /\ tiles = <<>>
    /\ connectors = <<>>
    /\ placements = 0
    /\ calls = 0
    /\ lattice = NoResult
    /\ first_lattice = NoResult
    /\ helpers = NoResult
    /\ call = NoCall
    /\ left = Polynomial(<<>>)
    /\ right = Polynomial(<<>>)

\* Configuration::try_from(text), for a text out of the input pieces
TryFrom ==
    /\ pc = "start"
    /\ \E first \in SeedAndPhasesStrings,
          rest \in SeqUpTo(TransformationStrings, MaxTransformations) :
          /\ value' = text_of(first, rest)
          /\ result' = try_from(text_of(first, rest))
    /\ pc' = "constructed"
    /\ origin' = "try_from"
    /\ UNCHANGED <<formatted, reparsed>>
    /\ UNCHANGED generator_vars
    /\ UNCHANGED library_vars

\* a Configuration literal
New ==
    /\ pc = "start"
    /\ \E seed \in LiteralSeeds, phases \in LiteralPhases,
          transformations \in
              SeqUpTo(LiteralTransformations, MaxTransformations) :
          result' = Ok(Configuration_new(seed, phases, transformations))
    /\ pc' = "constructed"
    /\ origin' = "new"
    /\ UNCHANGED <<value, formatted, reparsed>>
    /\ UNCHANGED generator_vars
    /\ UNCHANGED library_vars

\* config.to_string()
ToString ==
    /\ pc = "constructed"
    /\ result.tag = "Ok"
    /\ pc' = "formatted"
    /\ formatted' = Configuration_fmt(result.value)
    /\ UNCHANGED <<origin, value, result, reparsed>>
    /\ UNCHANGED generator_vars
    /\ UNCHANGED library_vars

\* Configuration::try_from(config.to_string().as_str())
TryFromFormatted ==
    /\ pc = "formatted"
    /\ pc' = "reparsed"
    /\ reparsed' = try_from(formatted)
    /\ UNCHANGED <<origin, value, result, formatted>>
    /\ UNCHANGED generator_vars
    /\ UNCHANGED library_vars

Next ==
    \/ TryFrom
    \/ New
    \/ ToString
    \/ TryFromFormatted

Spec == Init /\ [][Next]_vars

(* ------------------------- geometry primitives ------------------------ *)

\* An angle is an exact fraction <<p, q>> of a full turn.  A scalar is kept
\* as the expression that computes it.  A vector is a sum of terms, each a
\* scalar times the unit vector of an angle.

RECURSIVE GCD(_, _)
GCD(a, b) == IF b = 0 THEN a ELSE GCD(b, a % b)

Frac(p, q) == <<p \div GCD(p, q), q \div GCD(p, q)>>

AngleAdd(a, b) == Frac(a[1] * b[2] + b[1] * a[2], a[2] * b[2])

AngleLess(a, b) == a[1] * b[2] < b[1] * a[2]

\* the direction an angle gives to cos and sin: the angle within one turn
Direction(a) == Frac(a[1] % a[2], a[2])

TAU == Frac(1, 1)

PI == Frac(1, 2)

FRAC_PI_3 == Frac(1, 6)

\* side_length * T::HALF / (angle).sin()
half_over_sin(side_length, angle) == [side |-> side_length, sin_of |-> angle]

\* Vec2::unit(radians) * scale
Vec2_unit_times(radians, scale) ==
    << [angle |-> Direction(radians), scale |-> scale] >>

Vec2_add(v, displacement) == v \o displacement

Vec2_rotate(v, radians) ==
    [k \in 1..Len(v) |->
        [v[k] EXCEPT !.angle = Direction(AngleAdd(@, radians))]]

Panic(message) == [tag |-> "Panic", value |-> message]

\* faulty variant: a vertex is dropped when it equals any vertex kept so far
RECURSIVE filtered_from_all_distinct(_, _, _)
filtered_from_all_distinct(vertices, i, filtered) ==
    IF i > Len(vertices) THEN filtered
    ELSE filtered_from_all_distinct(vertices, i + 1,
            IF \A k \in 1..Len(filtered) : filtered[k] # vertices[i]
            THEN Append(filtered, vertices[i]) ELSE filtered)

\* the vertices of Poly2::new that differ from their predecessor
RECURSIVE filtered_from(_, _, _)
filtered_from(vertices, i, filtered) ==
    IF i > Len(vertices) THEN filtered
    ELSE filtered_from(vertices, i + 1,
            IF vertices[i] # vertices[i - 1]
            THEN Append(filtered, vertices[i]) ELSE filtered)

Poly2_new(vertices) ==
    IF Len(vertices) <= 2
    THEN Panic("polygons must have at least three vertices")
    ELSE LET filtered == filtered_from(vertices, 2, <<vertices[1]>>)
         IN  IF Len(filtered) <= 2
             THEN Panic("polygons must have at least three distinct vertices")
             ELSE [tag |-> "Poly2", vertices |-> filtered]

\* faulty variant: the angle is advanced before the vertex is pushed
RECURSIVE regular_loop_advance_first(_, _, _, _, _)
regular_loop_advance_first(radius, angle, limit, cum_angle, vertices) ==
    IF AngleLess(cum_angle, limit)
    THEN regular_loop_advance_first(radius, angle, limit,
            AngleAdd(cum_angle, angle),
            Append(vertices,
                   Vec2_unit_times(AngleAdd(cum_angle, angle), radius)))
    ELSE vertices

\* the loop of Poly2::regular: while cum_angle < limit
RECURSIVE regular_loop(_, _, _, _, _)
regular_loop(radius, angle, limit, cum_angle, vertices) ==
    IF AngleLess(cum_angle, limit)
    THEN regular_loop(radius, angle, limit, AngleAdd(cum_angle, angle),
                      Append(vertices, Vec2_unit_times(cum_angle, radius)))
    ELSE vertices

Poly2_regular(vertex_count, side_length) ==
    IF vertex_count <= 0
    THEN Panic("polygons cannot have a non-positive number of vertices")
    ELSE IF side_length <= 0
    THEN Panic("polygon side lengths must be strictly positive")
    ELSE LET radius == half_over_sin(side_length, Frac(1, 2 * vertex_count))
             angle == Frac(1, vertex_count)
             limit == Frac(2 * vertex_count - 1, 2 * vertex_count)
         IN  Poly2_new(regular_loop(radius, angle, limit, Frac(0, 1), <<>>))

Poly2_translate(self, displacement) ==
    Poly2_new([k \in 1..Len(self.vertices) |->
                  Vec2_add(self.vertices[k], displacement)])

Poly2_rotate(self, radians) ==
    Poly2_new([k \in 1..Len(self.vertices) |->
                  Vec2_rotate(self.vertices[k], radians)])

(* --------------------------- lattice generator ------------------------ *)

UnsupportedPolygonOrder == "That shape isn't kosher fam..."

InvalidShapeOrder == "Invalid shape"

ExpectMessage == "this is a poor error message"

create_tile(sides) ==
    IF sides \in {3, 4, 6, 8, 12}
    THEN Ok(Poly2_regular(sides, 1))
    ELSE Err(UnsupportedPolygonOrder)

create_seed_tile(sides) ==
    LET tile == create_tile(sides)
    IN  IF tile.tag = "Ok"
        THEN CASE sides = 3 ->
                    Ok(Poly2_translate(tile.value,
                          Vec2_unit_times(FRAC_PI_3,
                                          half_over_sin(1, FRAC_PI_3))))
               [] sides \in {4, 6, 8, 12} ->
                    Ok(Poly2_rotate(tile.value, Frac(1, 2 * sides)))
               [] OTHER -> Err(UnsupportedPolygonOrder)
        ELSE tile

\* faulty variant: the octagon is attached like the smaller polygons
starting_index_octagon_zero(sides) ==
    CASE sides \in {3, 4, 6, 8} -> Ok(0)
      [] sides = 12 -> Ok(2)
      [] OTHER -> Err(InvalidShapeOrder)

starting_index(sides) ==
    CASE sides \in {3, 4, 6} -> Ok(0)
      [] sides = 8 -> Ok(1)
      [] sides = 12 -> Ok(2)
      [] OTHER -> Err(InvalidShapeOrder)

\* faulty variant: every shape is pushed
push_tile_always(t, shape) == Append(t, shape)

\* the branches on tiles.len(): only the first shape is pushed
push_tile(t, shape) ==
    IF Len(t) = 0 THEN Append(t, shape)
    ELSE IF Len(t) = 1 THEN t
    ELSE t

\* faulty variant: each tile lists the tile placed after it
Lattice_connectivity_one_way(t) == [i \in 1..Len(t) |-> <<i>>]

\* connectivity: vec![]
Lattice_connectivity(t) == <<>>

Lattice_new(t) == [tiles |-> t, connectivity |-> Lattice_connectivity(t)]

\* faulty variant: the loop does not move on
next_index_stuck(i) == i

\* the step of a for loop
next_index(i) == i + 1

(* ---------------------- generator: state machine --------------------- *)

GeneratorSeeds == {3, 5, 12}

GeneratorPhases ==
    { <<>>,
      << <<4>> >>,
      << <<3, 3>> >>,
      << <<>>, <<8>>, <<12, 3>> >>,
      << <<6>>, <<5>> >>,
      << <<7, 3>> >>,
      << <<4, 6>>, <<0>> >> }

GeneratorTransformations ==
    { <<Rotation(Origin(None))>>,
      <<Reflection(Origin(Some(30))), Rotation(Vertex(Edge(2)))>> }

\* the locals of generate at its entry
Enter ==
    /\ tiles' = <<>>
    /\ connectors' = <<>>
    /\ placements' = 0
    /\ phase_index' = 1
    /\ shape_index' = 1
    /\ g_pc' = "phases"

\* Lattice::generate(&config, iterations): the call
Generate ==
    /\ g_pc = "idle"
    /\ \E seed \in GeneratorSeeds, phases \in GeneratorPhases,
          transformations \in GeneratorTransformations :
          config' = Configuration_new(seed, phases, transformations)
    /\ \E n \in 0..MaxIterations : iterations' = n
    /\ calls' = 1
    /\ Enter
    /\ UNCHANGED <<lattice, first_lattice, helpers>>
    /\ UNCHANGED notation_vars
    /\ UNCHANGED library_vars

\* for phase in &config.phases: the next phase
EnterPhase ==
    /\ g_pc = "phases"
    /\ phase_index <= Len(config.phases)
    /\ g_pc' = "shapes"
    /\ shape_index' = 1
    /\ UNCHANGED <<config, iterations, phase_index, tiles, connectors,
                   placements, calls, lattice, first_lattice, helpers>>
    /\ UNCHANGED notation_vars
    /\ UNCHANGED library_vars

\* for &shape_order in phase: the body, for the next shape order
PlaceShape ==
    /\ g_pc = "shapes"
    /\ shape_index <= Len(config.phases[phase_index])
    /\ \E shape \in {create_tile(config.phases[phase_index][shape_index])} :
          \/ /\ shape.tag = "Ok"
             /\ \E pushed \in {push_tile(tiles, shape.value)} :
                   /\ tiles' = pushed
                   /\ placements' = placements + Len(pushed) - Len(tiles)
             /\ shape_index' = next_index(shape_index)
             /\ UNCHANGED <<g_pc, lattice>>
          \/ /\ shape.tag = "Err"
             /\ g_pc' = "panicked"
             /\ lattice' = Panic(ExpectMessage)
             /\ UNCHANGED <<tiles, placements, shape_index>>
    /\ UNCHANGED <<config, iterations, phase_index, connectors, calls,
                   first_lattice, helpers>>
    /\ UNCHANGED notation_vars
    /\ UNCHANGED library_vars

\* the end of a phase
LeavePhase ==
    /\ g_pc = "shapes"
    /\ shape_index > Len(config.phases[phase_index])
    /\ g_pc' = "phases"
    /\ phase_index' = next_index(phase_index)
    /\ UNCHANGED <<config, iterations, shape_index, tiles, connectors,
                   placements, calls, lattice, first_lattice, helpers>>
    /\ UNCHANGED notation_vars
    /\ UNCHANGED library_vars

\* Self { tiles, connectivity: vec![] }
Return ==
    /\ g_pc = "phases"
    /\ phase_index > Len(config.phases)
    /\ g_pc' = "returned"
    /\ lattice' = Ok(Lattice_new(tiles))
    /\ UNCHANGED <<config, iterations, phase_index, shape_index, tiles,
                   connectors, placements, calls, first_lattice, helpers>>
    /\ UNCHANGED notation_vars
    /\ UNCHANGED library_vars

\* a second call with the same arguments
GenerateAgain ==
    /\ g_pc = "returned"
    /\ calls = 1
    /\ calls' = 2
    /\ first_lattice' = lattice
    /\ Enter
    /\ UNCHANGED <<config, iterations, lattice, helpers>>
    /\ UNCHANGED notation_vars
    /\ UNCHANGED library_vars

\* starting_index, create_tile and create_seed_tile on one number of sides
CallHelpers ==
    /\ g_pc = "idle"
    /\ g_pc' = "helpers"
    /\ \E sides \in 0..MaxSides :
          helpers' = [sides |-> sides,
                      starting_index |-> starting_index(sides),
                      create_tile |-> create_tile(sides),
                      create_seed_tile |-> create_seed_tile(sides)]
    /\ UNCHANGED <<config, iterations, phase_index, shape_index, tiles,
                   connectors, placements, calls, lattice, first_lattice>>
    /\ UNCHANGED notation_vars
    /\ UNCHANGED library_vars

\* the steps inside a call of generate
GenerateStep == EnterPhase \/ PlaceShape \/ LeavePhase \/ Return

GeneratorNext ==
    \/ Generate
    \/ EnterPhase
    \/ PlaceShape
    \/ LeavePhase
    \/ Return
    \/ GenerateAgain
    \/ CallHelpers

GeneratorSpec == Init /\ [][GeneratorNext]_vars

(* ------------------------------ polynomial ---------------------------- *)

\* A coefficient is an f64 with a significand of FloatBits bits and an
\* integer value; the sum and the product are rounded to nearest, ties to
\* even, as IEEE 754 arithmetic rounds them.

Abs(n) == IF n < 0 THEN -n ELSE n

\* the unit in the last place of a magnitude: the least power of two u with
\* magnitude < 2^FloatBits * u
RECURSIVE Ulp(_, _)
Ulp(magnitude, u) ==
    IF magnitude < (2 ^ FloatBits) * u THEN u ELSE Ulp(magnitude, 2 * u)

Round(n) ==
    LET u == Ulp(Abs(n), 1)
        q == Abs(n) \div u
        r == Abs(n) % u
        up == 2 * r > u \/ (2 * r = u /\ q % 2 = 1)
        rounded == (IF up THEN q + 1 ELSE q) * u
    IN  IF n < 0 THEN -rounded ELSE rounded

\* f64 + f64
T_add(a, b) == Round(a + b)

\* f64 * f64
T_mul(a, b) == Round(a * b)

\* faulty variant: only one zero coefficient is popped
Polynomial_new_pop_once(coefficients) ==
    IF Len(coefficients) > 0 /\ coefficients[Len(coefficients)] = 0
    THEN Polynomial(SubSeq(coefficients, 1, Len(coefficients) - 1))
    ELSE Polynomial(coefficients)

\* the loop of Polynomial::new: pop while the last coefficient is zero
RECURSIVE popped(_)
popped(coefficients) ==
    IF Len(coefficients) > 0 /\ coefficients[Len(coefficients)] = 0
    THEN popped(SubSeq(coefficients, 1, Len(coefficients) - 1))
    ELSE coefficients

Polynomial_new(coefficients) == Polynomial(popped(coefficients))

Polynomial_zero == Polynomial_new(<<>>)

Polynomial_one == Polynomial_new(<<1>>)

order(self) == Len(self.coefficients)

Max(a, b) == IF a >= b THEN a ELSE b

\* vec![zero; size]
zeros(size) == [k \in 1..size |-> 0]

IndexOutOfBounds == "index out of bounds"

SubtractWithOverflow == "attempt to subtract with overflow"

\* faulty variant: the result has the size of the left operand
Polynomial_add_lhs_size(self, rhs) ==
    Polynomial_new(
        [k \in 1..order(self) |->
            IF k <= order(rhs)
            THEN T_add(self.coefficients[k], rhs.coefficients[k])
            ELSE T_add(self.coefficients[k], 0)])

\* &lhs + &rhs
Polynomial_add(self, rhs) ==
    LET resultant_size == Max(order(self), order(rhs))
        base_coefficients ==
            [k \in 1..resultant_size |->
                IF k <= order(self) THEN self.coefficients[k] ELSE 0]
        new_coefficients ==
            [k \in 1..resultant_size |->
                IF k <= order(rhs)
                THEN T_add(base_coefficients[k], rhs.coefficients[k])
                ELSE T_add(base_coefficients[k], 0)]
    IN  IF order(self) > resultant_size THEN Panic(IndexOutOfBounds)
        ELSE Polynomial_new(new_coefficients)

\* the loops of mul: lhs_index from the last to the first, and for each
\* rhs_index from the first to the last (indices from 0)
RECURSIVE mul_loop(_, _, _, _, _)
mul_loop(self, rhs, product, lhs_index, rhs_index) ==
    IF lhs_index < 0 THEN Ok(product)
    ELSE IF rhs_index >= order(rhs)
    THEN mul_loop(self, rhs, product, lhs_index - 1, 0)
    ELSE IF lhs_index + rhs_index >= Len(product)
    THEN Panic(IndexOutOfBounds)
    ELSE mul_loop(self, rhs,
            [product EXCEPT ![lhs_index + rhs_index + 1] =
                T_add(@, T_mul(self.coefficients[lhs_index + 1],
                               rhs.coefficients[rhs_index + 1]))],
            lhs_index, rhs_index + 1)

\* &lhs * &rhs
Polynomial_mul(self, rhs) ==
    IF order(self) = 0 /\ order(rhs) = 0 THEN Polynomial_new(<<>>)
    ELSE LET size == order(self) + order(rhs) - 1
         IN  IF size < 0 THEN Panic(SubtractWithOverflow)
             ELSE LET product ==
                          mul_loop(self, rhs, zeros(size), order(self) - 1, 0)
                  IN  IF product.tag = "Ok"
                      THEN Polynomial_new(product.value)
                      ELSE product

\* faulty variant: the power is raised before it is used
RECURSIVE eval_loop_power_first(_, _, _, _, _)
eval_loop_power_first(self, at, i, total, power) ==
    IF i > order(self) THEN total
    ELSE eval_loop_power_first(self, at, i + 1,
            T_add(total, T_mul(self.coefficients[i], T_mul(power, at))),
            T_mul(power, at))

\* the loop of eval
RECURSIVE eval_loop(_, _, _, _, _)
eval_loop(self, at, i, total, power) ==
    IF i > order(self) THEN total
    ELSE eval_loop(self, at, i + 1,
                   T_add(total, T_mul(self.coefficients[i], power)),
                   T_mul(power, at))

\* self.eval(value)
Polynomial_eval(self, at) == eval_loop(self, at, 1, 0, 1)

(* ----------------------- library: state machine ----------------------- *)

\* Vec2 { x, y }
Vec2_new(x, y) == [x |-> x, y |-> y]

\* Vec2 - Vec2
Vec2_sub(v, other) == Vec2_new(v.x - other.x, v.y - other.y)

\* self.y.atan2(self.x), for the headings that are multiples of an eighth
\* of a turn; x - x is +0.0, and atan2(+0.0, x) is 0 or pi
Vec2_angle(v) ==
    CASE v.y = 0 /\ v.x >= 0 -> Frac(0, 1)
      [] v.y = 0 /\ v.x < 0 -> Frac(1, 2)
      [] v.x = 0 /\ v.y > 0 -> Frac(1, 4)
      [] v.x = 0 /\ v.y < 0 -> Frac(-1, 4)
      [] v.x = v.y /\ v.x > 0 -> Frac(1, 8)
      [] v.x = v.y /\ v.x < 0 -> Frac(-3, 8)
      [] v.x = -v.y /\ v.x > 0 -> Frac(-1, 8)
      [] v.x = -v.y /\ v.x < 0 -> Frac(3, 8)

AngleSub(a, b) == Frac(a[1] * b[2] - b[1] * a[2], a[2] * b[2])

\* a.rem_euclid(&modulus), for a positive modulus
rem_euclid(a, modulus) ==
    Frac((a[1] * modulus[2]) % (modulus[1] * a[2]), a[2] * modulus[2])

\* faulty variant: the angle is left in [0, 2 pi)
angle_to_unsigned(self, other) ==
    rem_euclid(AngleSub(Vec2_angle(other), Vec2_angle(self)), TAU)

angle_to(self, other) ==
    LET std_angle ==
            rem_euclid(AngleSub(Vec2_angle(other), Vec2_angle(self)), TAU)
    IN  IF AngleLess(PI, std_angle)
        THEN AngleAdd(AngleSub(Frac(0, 1), PI), rem_euclid(std_angle, PI))
        ELSE std_angle

\* the loop of angular_sum: for i in 1..count
RECURSIVE angular_sum_loop(_, _, _, _)
angular_sum_loop(vertices, i, sum, current_heading) ==
    IF i > Len(vertices) - 1 THEN <<sum, current_heading>>
    ELSE LET next_heading == Vec2_sub(vertices[i + 1], vertices[i])
             incr == angle_to(current_heading, next_heading)
         IN  angular_sum_loop(vertices, i + 1, AngleAdd(sum, incr),
                              next_heading)

Poly2_angular_sum(self) ==
    LET vertices == self.vertices
        count == Len(vertices)
    IN  IF count < 1 THEN Frac(0, 1)
        ELSE LET last_heading == Vec2_sub(vertices[1], vertices[count])
                 looped == angular_sum_loop(vertices, 1, Frac(0, 1),
                                            last_heading)
             IN  AngleAdd(looped[1], angle_to(looped[2], last_heading))

\* the points the vertex lists given to Poly2::new are made of
NewPoints == {Vec2_new(0, 0), Vec2_new(1, 0), Vec2_new(0, 1)}

\* Poly2::new(&vertices)
CallPoly2New ==
    /\ call.op = "none"
    /\ \E vertices \in SeqUpTo(NewPoints, MaxVertices) :
          call' = [op |-> "Poly2::new", vertices |-> vertices,
                   out |-> Poly2_new(vertices)]
    /\ UNCHANGED <<left, right>>
    /\ UNCHANGED <<notation_vars, generator_vars>>

\* the side lengths given to Poly2::regular
SideLengths == {-1, 0, 1, 2}

\* Poly2::regular(vertex_count, side_length)
CallPoly2Regular ==
    /\ call.op = "none"
    /\ \E vertex_count \in -1..MaxSides, side_length \in SideLengths :
          call' = [op |-> "Poly2::regular", vertex_count |-> vertex_count,
                   side_length |-> side_length,
                   out |-> Poly2_regular(vertex_count, side_length)]
    /\ UNCHANGED <<left, right>>
    /\ UNCHANGED <<notation_vars, generator_vars>>

\* the polygons of tests::methods::angular_sum, with coordinates in
\* quarters, and an L-shaped hexagon
TestPolygons ==
    { << Vec2_new(2, 2), Vec2_new(-2, 2), Vec2_new(-2, -2), Vec2_new(2, -2) >>,
      << Vec2_new(2, 2), Vec2_new(-2, 2), Vec2_new(-2, 0), Vec2_new(1, 0),
         Vec2_new(1, 1), Vec2_new(0, 1), Vec2_new(0, -2), Vec2_new(2, -2) >>,
      << Vec2_new(2, 2), Vec2_new(0, 2), Vec2_new(0, -2), Vec2_new(-2, -2),
         Vec2_new(-2, 0), Vec2_new(2, 0) >>,
      << Vec2_new(0, 0), Vec2_new(2, 0), Vec2_new(2, 1), Vec2_new(1, 1),
         Vec2_new(1, 2), Vec2_new(0, 2) >> }

\* the same vertices in the opposite order
Reversed(vertices) ==
    [k \in 1..Len(vertices) |-> vertices[Len(vertices) + 1 - k]]

\* the same cycle of vertices, begun n vertices later
Shifted(vertices, n) ==
    [k \in 1..Len(vertices) |-> vertices[((k - 1 + n) % Len(vertices)) + 1]]

\* the vertices turned by n quarter turns about the origin
RECURSIVE Turned(_, _)
Turned(vertices, n) ==
    IF n = 0 THEN vertices
    ELSE Turned([k \in 1..Len(vertices) |->
                    Vec2_new(-vertices[k].y, vertices[k].x)], n - 1)

\* the test polygons in both directions, from every vertex, in each of
\* the four orientations
AngularPolygons ==
    { Turned(Shifted(w, n), r) :
        w \in TestPolygons \cup { Reversed(v) : v \in TestPolygons },
        n \in 0..MaxShift, r \in 0..3 }

\* Poly2::new(&vertices).angular_sum()
CallAngularSum ==
    /\ call.op = "none"
    /\ \E vertices \in AngularPolygons :
          call' = [op |-> "Poly2::angular_sum", vertices |-> vertices,
                   out |-> Poly2_angular_sum(Poly2_new(vertices))]
    /\ UNCHANGED <<left, right>>
    /\ UNCHANGED <<notation_vars, generator_vars>>

\* the coefficients the lists given to Polynomial::new are made of; the
\* largest is the least one whose sum with 1 is rounded
PolynomialCoefficients == {-1, 0, 1, 2 ^ FloatBits}

\* the values polynomials are evaluated at
EvalPoints == {0, 1, 2, 3}

\* Polynomial::new(coefficients), twice: the two polynomials at hand
CallPolynomialNew ==
    /\ call.op = "none"
    /\ \E coefficients \in SeqUpTo(PolynomialCoefficients, MaxCoefficients),
          others \in SeqUpTo(PolynomialCoefficients, MaxCoefficients) :
          /\ left' = Polynomial_new(coefficients)
          /\ right' = Polynomial_new(others)
          /\ call' = [op |-> "Polynomial::new",
                      coefficients |-> coefficients, others |-> others]
    /\ UNCHANGED <<notation_vars, generator_vars>>

\* operation(&lhs, &rhs) with +
add(a, b) == Polynomial_add(a, b)

\* operation(&lhs, &rhs) with *
mul(a, b) == Polynomial_mul(a, b)

operation(name, a, b) == IF name = "add" THEN add(a, b) ELSE mul(a, b)

\* operation(&lhs, &rhs) and operation(&rhs, &lhs), as test_operation
\* calls them
Operate ==
    /\ call.op = "Polynomial::new"
    /\ \E name \in {"add", "mul"} :
          call' = [op |-> name, chained |-> FALSE,
                   forward |-> operation(name, left, right),
                   backward |-> operation(name, right, left)]
    /\ UNCHANGED <<left, right>>
    /\ UNCHANGED <<notation_vars, generator_vars>>

\* the same with the result and Polynomial::zero() or Polynomial::one()
OperateOnResult ==
    /\ call.op \in {"add", "mul"}
    /\ ~call.chained
    /\ \E name \in {"add", "mul"}, unit \in {Polynomial_zero, Polynomial_one} :
          /\ left' = call.forward
          /\ right' = unit
          /\ call' = [op |-> name, chained |-> TRUE,
                      forward |-> operation(name, call.forward, unit),
                      backward |-> operation(name, unit, call.forward)]
    /\ UNCHANGED <<notation_vars, generator_vars>>

\* eval of the two polynomials, of their sum and of their product
Evaluate ==
    /\ call.op = "Polynomial::new"
    /\ \E at \in EvalPoints :
          call' = [op |-> "eval", at |-> at,
                   of_left |-> Polynomial_eval(left, at),
                   of_right |-> Polynomial_eval(right, at),
                   of_sum |-> Polynomial_eval(add(left, right), at),
                   of_product |-> Polynomial_eval(mul(left, right), at)]
    /\ UNCHANGED <<left, right>>
    /\ UNCHANGED <<notation_vars, generator_vars>>

\* LineSegment2 { start, end }
LineSegment2_new(start, end) == [start |-> start, end |-> end]

\* (0..self.vertices.len() - 1).map(|i| LineSegment2::new(v[i], v[i + 1]))
Poly2_edges(self) ==
    IF Len(self.vertices) = 0 THEN Panic(SubtractWithOverflow)
    ELSE [i \in 1..(Len(self.vertices) - 1) |->
             LineSegment2_new(self.vertices[i], self.vertices[i + 1])]

\* Poly2::new(&vertices).edges()
CallEdges ==
    /\ call.op = "none"
    /\ \E vertices \in AngularPolygons :
          call' = [op |-> "Poly2::edges", vertices |-> vertices,
                   out |-> Poly2_edges(Poly2_new(vertices))]
    /\ UNCHANGED <<left, right>>
    /\ UNCHANGED <<notation_vars, generator_vars>>

\* Vec2 + Vec2, on coordinates
Vec2_add_coordinates(v, other) == Vec2_new(v.x + other.x, v.y + other.y)

\* Vec2 * T, for a proportion that is the fraction t[1] / t[2]; the
\* coordinates of the product are fractions
Vec2_mul(v, t) == Vec2_new(Frac(v.x * t[1], t[2]), Frac(v.y * t[1], t[2]))

HALF == Frac(1, 2)

lerp(start, end, proportion) ==
    Vec2_mul(Vec2_add_coordinates(start, Vec2_sub(end, start)), proportion)

LineSegment2_centre(self) == lerp(self.start, self.end, HALF)

\* the end points of the segments
SegmentPoints == { Vec2_new(x, y) : x, y \in {-2, 0, 2} }

\* the proportions given to lerp
Proportions == {Frac(0, 1), Frac(1, 4), HALF, Frac(1, 1)}

\* LineSegment2::new(start, end).centre()
CallCentre ==
    /\ call.op = "none"
    /\ \E start \in SegmentPoints, end \in SegmentPoints :
          call' = [op |-> "LineSegment2::centre", start |-> start,
                   end |-> end,
                   out |-> LineSegment2_centre(LineSegment2_new(start, end))]
    /\ UNCHANGED <<left, right>>
    /\ UNCHANGED <<notation_vars, generator_vars>>

\* lerp(start, end, proportion)
CallLerp ==
    /\ call.op = "none"
    /\ \E start \in SegmentPoints, end \in SegmentPoints,
          proportion \in Proportions :
          call' = [op |-> "lerp", start |-> start, end |-> end,
                   proportion |-> proportion,
                   out |-> lerp(start, end, proportion)]
    /\ UNCHANGED <<left, right>>
    /\ UNCHANGED <<notation_vars, generator_vars>>

LibraryNext ==
    \/ CallPoly2New
    \/ CallPoly2Regular
    \/ CallAngularSum
    \/ CallPolynomialNew
    \/ Operate
    \/ OperateOnResult
    \/ Evaluate
    \/ CallEdges
    \/ CallCentre
    \/ CallLerp

LibrarySpec == Init /\ [][LibraryNext]_vars

(* ------------------------- notions of the claims ---------------------- *)

\* the '/'-pieces of the text given to try_from
Pieces == split(value, "/")

\* the '-'-segments of the piece before the first '/'
Segments == split(Head(Pieces), "-")

HasSlash(text) == \E i \in 1..Len(text) : text[i] = "/"

AllDigits(text) == \A i \in 1..Len(text) : IsDigit(text[i])

\* the number a digit string denotes
RECURSIVE DecimalValue(_)
DecimalValue(digits) ==
    IF digits = <<>> THEN 0
    ELSE 10 * DecimalValue(SubSeq(digits, 1, Len(digits) - 1))
         + DigitValue(digits[Len(digits)])

Unsigned(token) ==
    IF token # <<>> /\ Head(token) = "+" THEN Tail(token) ELSE token

\* the token denotes a non-negative integer that a usize holds
IsNonNegInt(token) ==
    /\ Unsigned(token) # <<>>
    /\ AllDigits(Unsigned(token))
    /\ DecimalValue(Unsigned(token)) <= UsizeMax

IntegerValue(token) == DecimalValue(Unsigned(token))

\* Parse accepts the pieces before the i-th one (followed by a valid piece)
PrefixAccepted(i) ==
    try_from(join(SubSeq(Pieces, 1, i - 1) \o << <<"r">> >>, "/")).tag = "Ok"

\* what is left of a source when its first and last characters are removed
Interior(source) ==
    IF Len(source) < 2 THEN <<>> ELSE SubSeq(source, 2, Len(source) - 1)

IsParenthesized(source) ==
    /\ Len(source) >= 2
    /\ source[1] = "("
    /\ source[Len(source)] = ")"

Parsed == origin = "try_from"

Accepted == origin = "try_from" /\ result.tag = "Ok"

(* -------------------------------- claims ------------------------------ *)

\* C1: for every Configuration c that try_from returns as Ok, try_from of
\* c.to_string() is Ok(c), also with no phases and with seed = usize::MAX.
C1_RoundTrip ==
    (pc = "reparsed" /\ Accepted) => reparsed = result

C1_Witness ==
    /\ pc = "reparsed"
    /\ Accepted
    /\ reparsed = result
    /\ result.value.phases = <<>>
    /\ result.value.seed = UsizeMax
    /\ formatted # value

\* C2: for every accepted text the seed is the value of the first
\* '-'-segment of the first piece, and phases has one entry per later
\* segment, in order, each the integers of its ','-tokens in order.
C2_SeedAndPhasesFollowSegments ==
    Accepted =>
        /\ \A k \in 1..Len(Segments) :
              \A token \in { split(Segments[k], ",")[j] :
                               j \in 1..Len(split(Segments[k], ",")) } :
                  IsNonNegInt(token)
        /\ result.value.seed = IntegerValue(Segments[1])
        /\ Len(result.value.phases) = Len(Segments) - 1
        /\ \A k \in 1..Len(result.value.phases) :
              LET tokens == split(Segments[k + 1], ",")
              IN  result.value.phases[k] =
                      [j \in 1..Len(tokens) |-> IntegerValue(tokens[j])]

\* C3: when the pieces before a transformation piece are valid and the
\* piece's first character is neither 'r' nor 'm', try_from fails with
\* UnknownTransformationChar, whatever follows that character.
C3_KindValidatedUnconditionally ==
    (Parsed /\ HasSlash(value)) =>
        \A i \in 2..Len(Pieces) :
            ( /\ PrefixAccepted(i)
              /\ Pieces[i] # <<>>
              /\ Head(Pieces[i]) \notin {"r", "m"} )
            => result = Err(UnknownTransformationChar)

\* C4: in a vertex specifier an empty interior gives EmptyVertexSpecifier;
\* otherwise a first character outside v/c/h gives UnknownVertexTypeChar
\* whatever follows; only after v/c/h does a non-integer rest give
\* InvalidVertexIndex.
C4_VertexErrorOrder ==
    (Parsed /\ HasSlash(value)) =>
        \A i \in 2..Len(Pieces) :
            ( /\ PrefixAccepted(i)
              /\ Len(Pieces[i]) >= 2
              /\ ~IsNonNegInt(Tail(Pieces[i])) )
            => LET interior == Interior(Tail(Pieces[i]))
               IN  /\ interior = <<>>
                        => result = Err(EmptyVertexSpecifier)
                   /\ (interior # <<>> /\ Head(interior) \notin {"v", "c", "h"})
                        => result = Err(UnknownVertexTypeChar)
                   /\ ( /\ interior # <<>>
                        /\ Head(interior) \in {"v", "c", "h"}
                        /\ ~IsNonNegInt(Tail(interior)) )
                        => result = Err(InvalidVertexIndex)

\* C5: try_from fails with MissingTransformations exactly when the text has
\* no '/', so such a text never gives InvalidSeed or InvalidShape.
C5_MissingTransformationsIffNoSlash ==
    Parsed => ((result = Err(MissingTransformations)) <=> ~HasSlash(value))

C5_Witness ==
    /\ Parsed
    /\ ~HasSlash(value)
    /\ ~IsNonNegInt(value)
    /\ result = Err(MissingTransformations)

\* C6: in an accepted text the i-th transformation comes from the i-th piece
\* after the first: 'r' is Rotation, 'm' is Reflection; an empty rest is
\* Origin(None), digits are Origin(Some(N)), "(Xn)" is Vertex of Corner,
\* Centre or Edge n for X = v, c, h.
C6_TransformationsFollowPieces ==
    Accepted =>
        /\ Len(result.value.transformations) = Len(Pieces) - 1
        /\ \A i \in 1..Len(result.value.transformations) :
              LET piece == Pieces[i + 1]
                  rest == Tail(piece)
                  spec == Interior(rest)
                  t == result.value.transformations[i]
              IN  /\ Head(piece) = "r" => t.tag = "Rotation"
                  /\ Head(piece) = "m" => t.tag = "Reflection"
                  /\ rest = <<>> => t.source = Origin(None)
                  /\ (rest # <<>> /\ AllDigits(rest))
                        => t.source = Origin(Some(DecimalValue(rest)))
                  /\ (IsParenthesized(rest) /\ spec # <<>>
                        /\ AllDigits(Tail(spec)))
                        => /\ Head(spec) = "v" =>
                                t.source = Vertex(Corner(DecimalValue(Tail(spec))))
                           /\ Head(spec) = "c" =>
                                t.source = Vertex(Centre(DecimalValue(Tail(spec))))
                           /\ Head(spec) = "h" =>
                                t.source = Vertex(Edge(DecimalValue(Tail(spec))))

C6_Witness ==
    /\ Accepted
    /\ Len(Pieces) = 3
    /\ Pieces[2] = <<"m", "3", "0">>
    /\ Pieces[3] = <<"r", "(", "h", "2", ")">>
    /\ result.value.transformations =
          <<Reflection(Origin(Some(30))), Rotation(Vertex(Edge(2)))>>

\* C7: try_from returns a Vertex source only for a source text that starts
\* with '(' and ends with ')'; every other non-empty non-numeric source is
\* rejected.
C7_VertexOnlyWhenParenthesized ==
    Accepted =>
        \A i \in 1..Len(result.value.transformations) :
            LET rest == Tail(Pieces[i + 1])
            IN  /\ result.value.transformations[i].source.tag = "Vertex"
                      => IsParenthesized(rest)
                /\ ~(rest # <<>> /\ ~IsNonNegInt(rest) /\ ~IsParenthesized(rest))

\* C8: an empty transformation piece (two adjacent '/', or a '/' at the end)
\* makes try_from fail with EmptyTransformation when the pieces before it
\* are valid.
C8_EmptyPieceIsEmptyTransformation ==
    (Parsed /\ HasSlash(value)) =>
        \A i \in 2..Len(Pieces) :
            (Pieces[i] = <<>> /\ PrefixAccepted(i))
            => result = Err(EmptyTransformation)

C8_Witness ==
    /\ Parsed
    /\ Len(Pieces) = 3
    /\ PrefixAccepted(2)
    /\ Pieces[2] = <<>>
    /\ Pieces[3] # <<>>
    /\ result = Err(EmptyTransformation)

\* C9: for a text with a '/': a first '-'-segment that is not a non-negative
\* integer gives InvalidSeed; otherwise a ','-token of a later segment that
\* is not a non-negative integer gives InvalidShape.
C9_SeedThenShapeErrors ==
    (Parsed /\ HasSlash(value)) =>
        IF ~IsNonNegInt(Segments[1])
        THEN result = Err(InvalidSeed)
        ELSE (\E k \in 2..Len(Segments) :
                 \E j \in 1..Len(split(Segments[k], ",")) :
                     ~IsNonNegInt(split(Segments[k], ",")[j]))
             => result = Err(InvalidShape)

\* the text the claim describes, emitted from left to right
ExpectedPhases(phases) ==
    IF phases = <<>> THEN <<>>
    ELSE <<"-">> \o join([k \in 1..Len(phases) |->
                join([j \in 1..Len(phases[k]) |->
                        usize_to_string(phases[k][j])], ",")], "-")

ExpectedSource(source) ==
    CASE source = Origin(None) -> <<>>
      [] source.tag = "Origin" /\ source.arg # None ->
            usize_to_string(source.arg[1])
      [] source.tag = "Vertex" /\ source.arg.tag = "Corner" ->
            <<"(", "v">> \o usize_to_string(source.arg.index) \o <<")">>
      [] source.tag = "Vertex" /\ source.arg.tag = "Centre" ->
            <<"(", "c">> \o usize_to_string(source.arg.index) \o <<")">>
      [] source.tag = "Vertex" /\ source.arg.tag = "Edge" ->
            <<"(", "h">> \o usize_to_string(source.arg.index) \o <<")">>

ExpectedTransformation(t) ==
    (IF t.tag = "Rotation" THEN <<"r">> ELSE <<"m">>)
    \o ExpectedSource(t.source)

\* C10: to_string gives the seed in decimal; then, only if there are phases,
\* '-' and the phases joined by '-', each its integers joined by ','; then
\* '/'; then the transformations joined by '/', each 'r' or 'm' followed by
\* nothing, the decimal angle, or '(' v/c/h index ')'.
C10_FormatText ==
    pc \in {"formatted", "reparsed"} =>
        LET pieces == split(formatted, "/")
            c == result.value
        IN  /\ Head(pieces) = usize_to_string(c.seed) \o ExpectedPhases(c.phases)
            /\ DecimalValue(usize_to_string(c.seed)) = c.seed
            /\ Len(pieces) = IF c.transformations = <<>> THEN 2
                             ELSE Len(c.transformations) + 1
            /\ c.transformations = <<>> => pieces[2] = <<>>
            /\ \A i \in 1..Len(c.transformations) :
                  pieces[i + 1] = ExpectedTransformation(c.transformations[i])

C10_Witness ==
    /\ pc = "formatted"
    /\ origin = "new"
    /\ Len(result.value.phases) = 2
    /\ result.value.seed = UsizeMax
    /\ Len(result.value.transformations) = 2
    /\ result.value.transformations[1] = Reflection(Origin(Some(30)))
    /\ result.value.transformations[2] = Rotation(Vertex(Edge(2)))

\* try_from of a text made of a valid first piece and the i-th piece alone
AloneResult(i) ==
    IF i = 1 THEN try_from(join(<<Pieces[1], <<"r">> >>, "/"))
    ELSE try_from(join(<< <<"3">>, Pieces[i] >>, "/"))

\* the pieces that try_from rejects when given alone
InvalidPieces == { i \in 1..Len(Pieces) : AloneResult(i).tag = "Err" }

\* C11: try_from stops at the first error from the left and returns no
\* Configuration: an invalid first piece gives InvalidSeed or InvalidShape
\* whatever the transformation pieces are, and of several invalid
\* transformation pieces the leftmost one decides the error.
C11_LeftmostErrorWins ==
    (Parsed /\ HasSlash(value) /\ InvalidPieces # {}) =>
        LET leftmost == CHOOSE i \in InvalidPieces :
                            \A j \in InvalidPieces : i <= j
        IN  /\ result = AloneResult(leftmost)
            /\ result.tag = "Err"
            /\ leftmost = 1 => result.value \in {InvalidSeed, InvalidShape}

C11_Witness ==
    /\ Parsed
    /\ Len(Pieces) = 3
    /\ InvalidPieces = {2, 3}
    /\ AloneResult(2) # AloneResult(3)
    /\ result = AloneResult(2)

\* C12: every Configuration returned by try_from has at least one
\* transformation, and as many as the text has '/' characters.
C12_OneTransformationPerSlash ==
    Accepted =>
        /\ Len(result.value.transformations) >= 1
        /\ Len(result.value.transformations) =
              Cardinality({ i \in 1..Len(value) : value[i] = "/" })

C12_Witness ==
    /\ Accepted
    /\ Cardinality({ i \in 1..Len(value) : value[i] = "/" }) = 2
    /\ Len(result.value.transformations) = 2

(* ----------------------- claims on the generator ---------------------- *)

SupportedOrders == {3, 4, 6, 8, 12}

RECURSIVE Flatten(_)
Flatten(phases) ==
    IF phases = <<>> THEN <<>> ELSE Head(phases) \o Flatten(Tail(phases))

AllSupported(c) ==
    /\ c.seed \in SupportedOrders
    /\ \A k \in 1..Len(Flatten(c.phases)) :
          Flatten(c.phases)[k] \in SupportedOrders

Finished == g_pc \in {"returned", "panicked"}

Returned == g_pc = "returned"

\* the tiles listed as neighbours of the tile with (0-based) index i
Neighbours(connectivity, i) ==
    IF i + 1 \in 1..Len(connectivity)
    THEN { connectivity[i + 1][k] : k \in 1..Len(connectivity[i + 1]) }
    ELSE {}

VertexSet(tile) == { tile.vertices[k] : k \in 1..Len(tile.vertices) }

\* C13: generate ends in the failure UnsupportedPolygonOrder, given back as
\* a failure result without a lattice, whenever the seed or a polygon order
\* of a phase is not one of 3, 4, 6, 8, 12.
C13_UnsupportedOrderIsFailure ==
    (Finished /\ ~AllSupported(config)) =>
        lattice = Err(UnsupportedPolygonOrder)

\* C14: for supported orders and every iteration count, also with no
\* phases, the lattice has at least one tile and its first tile is the seed
\* tile: config.seed sides, built by create_seed_tile.
C14_SeedTileFirst ==
    (Returned /\ AllSupported(config)) =>
        /\ Len(lattice.value.tiles) >= 1
        /\ Len(lattice.value.tiles[1].vertices) = config.seed
        /\ Ok(lattice.value.tiles[1]) = create_seed_tile(config.seed)

\* C15: the seed is placed first and then one tile per polygon order of
\* each phase, in order: the k-th tile after the seed has as many sides as
\* the k-th entry of the flattened phases, and it and the tile it was
\* attached to list each other as neighbours.
C15_PhaseGrowth ==
    (Returned /\ AllSupported(config) /\ Flatten(config.phases) # <<>>) =>
        LET flat == Flatten(config.phases)
            t == lattice.value.tiles
            c == lattice.value.connectivity
        IN  /\ Len(t) >= 1 + Len(flat)
            /\ \A k \in 1..Len(flat) :
                  /\ Len(t[k + 1].vertices) = flat[k]
                  /\ \E i \in 0..(k - 1) :
                        /\ k \in Neighbours(c, i)
                        /\ i \in Neighbours(c, k)

C17_ConnectivityPerTile ==
    Returned =>
        LET t == lattice.value.tiles
            c == lattice.value.connectivity
        IN  /\ Len(c) = Len(t)
            /\ \A i \in 0..(Len(c) - 1) :
                  \A j \in Neighbours(c, i) : j \in 0..(Len(t) - 1)

RECURSIVE StepsOfPhases(_, _)
StepsOfPhases(phases, from) ==
    IF from > Len(phases) THEN 0
    ELSE Len(phases[from]) + 2 + StepsOfPhases(phases, from + 1)

RemainingSteps ==
    CASE g_pc = "phases" -> 1 + StepsOfPhases(config.phases, phase_index)
      [] g_pc = "shapes" ->
            1 + StepsOfPhases(config.phases, phase_index + 1)
              + (Len(config.phases[phase_index]) + 1 - shape_index) + 1
      [] OTHER -> 0

\* C19: every call of generate ends: each of its steps leaves fewer steps
\* to take, and a call that has steps left is not over; it places no more
\* tiles than the phases have entries; and a second call with the same
\* arguments returns the same lattice as the first.
C19_TerminatesBoundedDeterministic ==
    /\ [][GenerateStep => RemainingSteps' < RemainingSteps]_vars
    /\ [](RemainingSteps >= 0)
    /\ [](RemainingSteps = 0 <=> g_pc \notin {"phases", "shapes"})
    /\ [](placements <= Len(Flatten(config.phases)))
    /\ []((Returned /\ calls = 2) => lattice = first_lattice)

C19_Witness ==
    /\ Returned
    /\ calls = 2
    /\ placements = 1
    /\ Len(Flatten(config.phases)) = 3
    /\ iterations = MaxIterations
    /\ lattice = first_lattice

\* C20: starting_index gives edge 0 for 3, 4 and 6 sides, edge 1 for 8 and
\* edge 2 for 12, and an error for every other number; it succeeds for
\* exactly the numbers for which create_tile and create_seed_tile succeed.
C20_StartingIndex ==
    g_pc = "helpers" =>
        /\ helpers.sides \in {3, 4, 6} => helpers.starting_index = Ok(0)
        /\ helpers.sides = 8 => helpers.starting_index = Ok(1)
        /\ helpers.sides = 12 => helpers.starting_index = Ok(2)
        /\ helpers.sides \notin SupportedOrders
              => helpers.starting_index.tag = "Err"
        /\ helpers.starting_index.tag = "Ok"
              <=> ( /\ helpers.create_tile.tag = "Ok"
                    /\ helpers.create_tile.value.tag = "Poly2" )
        /\ helpers.starting_index.tag = "Ok"
              <=> ( /\ helpers.create_seed_tile.tag = "Ok"
                    /\ helpers.create_seed_tile.value.tag = "Poly2" )

C20_Witness ==
    /\ g_pc = "helpers"
    /\ helpers.sides = 8
    /\ helpers.starting_index = Ok(1)
    /\ helpers.create_seed_tile.tag = "Ok"

(* ------------------------ claims on the library ----------------------- *)

\* the distinct points of a vertex list
DistinctVertices(vertices) == { vertices[k] : k \in 1..Len(vertices) }

Panicked(out) == out.tag = "Panic"

\* a vertex list with every run of equal consecutive vertices collapsed
RECURSIVE Collapsed(_)
Collapsed(vertices) ==
    IF Len(vertices) <= 1 THEN vertices
    ELSE LET rest == Collapsed(Tail(vertices))
         IN  IF Head(vertices) = Head(rest) THEN rest
             ELSE <<Head(vertices)>> \o rest

\* C21: Poly2::new fails for every vertex list with fewer than 3 distinct
\* vertices, also for lists of 3 or more vertices among which only two
\* distinct points occur.
C21_FewDistinctVerticesFail ==
    (call.op = "Poly2::new"
        /\ Cardinality(DistinctVertices(call.vertices)) < 3)
        => Panicked(call.out)

\* C22: when Poly2::new succeeds, its vertices are the given list with
\* every run of equal consecutive vertices collapsed to one vertex, in
\* order; no two consecutive vertices of the result are equal; and new on
\* the result's vertices gives the same polygon.
C22_NewCollapsesRuns ==
    (call.op = "Poly2::new" /\ ~Panicked(call.out)) =>
        LET v == call.out.vertices
        IN  /\ v = Collapsed(call.vertices)
            /\ \A k \in 1..(Len(v) - 1) : v[k] # v[k + 1]
            /\ Poly2_new(v) = call.out

C22_Witness ==
    /\ call.op = "Poly2::new"
    /\ ~Panicked(call.out)
    /\ Len(call.out.vertices) = 3
    /\ Len(call.vertices) = 5
    /\ call.vertices[1] = call.vertices[2]
    /\ call.vertices[4] = call.vertices[5]

PolygonEdge(vertices, k) == <<vertices[k], vertices[(k % Len(vertices)) + 1]>>

Sign(n) == IF n > 0 THEN 1 ELSE IF n < 0 THEN -1 ELSE 0

\* on which side of the line from a to b the point c lies
Side(a, b, c) ==
    Sign((b.x - a.x) * (c.y - a.y) - (b.y - a.y) * (c.x - a.x))

Between(u, v, w) == (u <= v /\ v <= w) \/ (w <= v /\ v <= u)

OnSegment(c, e) ==
    /\ Side(e[1], e[2], c) = 0
    /\ Between(e[1].x, c.x, e[2].x)
    /\ Between(e[1].y, c.y, e[2].y)

ProperlyCross(e, f) ==
    /\ Side(e[1], e[2], f[1]) * Side(e[1], e[2], f[2]) < 0
    /\ Side(f[1], f[2], e[1]) * Side(f[1], f[2], e[2]) < 0

Meet(e, f) ==
    \/ ProperlyCross(e, f)
    \/ OnSegment(f[1], e) \/ OnSegment(f[2], e)
    \/ OnSegment(e[1], f) \/ OnSegment(e[2], f)

\* pairs of edges that do not follow one another
ApartEdges(vertices) ==
    { ij \in (1..Len(vertices)) \X (1..Len(vertices)) :
        /\ ij[1] + 1 < ij[2]
        /\ ~(ij[1] = 1 /\ ij[2] = Len(vertices)) }

MeetingEdges(vertices) ==
    { ij \in ApartEdges(vertices) :
        Meet(PolygonEdge(vertices, ij[1]), PolygonEdge(vertices, ij[2])) }

\* a simple polygon: edges meet only where one follows the other, and there
\* only in the vertex they share
Simple(vertices) ==
    /\ Len(vertices) >= 3
    /\ MeetingEdges(vertices) = {}
    /\ \A k \in 1..Len(vertices) :
          ~OnSegment(PolygonEdge(vertices, (k % Len(vertices)) + 1)[2],
                     PolygonEdge(vertices, k))

\* twice the area enclosed, positive for the direction that
\* tests::methods::angular_sum calls clockwise (the y axis pointing down)
RECURSIVE ShoelaceFrom(_, _)
ShoelaceFrom(vertices, k) ==
    IF k > Len(vertices) THEN 0
    ELSE LET e == PolygonEdge(vertices, k)
         IN  e[1].x * e[2].y - e[2].x * e[1].y + ShoelaceFrom(vertices, k + 1)

Shoelace(vertices) == ShoelaceFrom(vertices, 1)

\* where an edge along one axis crosses an edge along the other
CrossingPoint(e, f) ==
    IF e[1].y = e[2].y THEN Vec2_new(f[1].x, e[1].y)
    ELSE Vec2_new(e[1].x, f[1].y)

\* a figure of eight: one crossing, the two loops it makes wound in
\* opposite directions
FigureEight(vertices) ==
    /\ Cardinality(MeetingEdges(vertices)) = 1
    /\ \A ij \in MeetingEdges(vertices) :
          LET e == PolygonEdge(vertices, ij[1])
              f == PolygonEdge(vertices, ij[2])
              crossing == CrossingPoint(e, f)
              inner == <<crossing>>
                          \o SubSeq(vertices, ij[1] + 1, ij[2])
              outer == <<crossing>>
                          \o SubSeq(vertices, ij[2] + 1, Len(vertices))
                          \o SubSeq(vertices, 1, ij[1])
          IN  /\ ProperlyCross(e, f)
              /\ Shoelace(inner) * Shoelace(outer) < 0

\* C24: angular_sum is a full turn for a simple polygon traversed
\* clockwise, minus a full turn for a simple polygon traversed
\* counter-clockwise, and zero for a figure of eight (polygons whose edges
\* run along the axes).
C24_TurningNumber ==
    call.op = "Poly2::angular_sum" =>
        LET v == call.vertices
        IN  /\ (Simple(v) /\ Shoelace(v) > 0) => call.out = TAU
            /\ (Simple(v) /\ Shoelace(v) < 0)
                  => call.out = AngleSub(Frac(0, 1), TAU)
            /\ FigureEight(v) => call.out = Frac(0, 1)

C24_Witness ==
    /\ call.op = "Poly2::angular_sum"
    /\ Len(call.vertices) = 6
    /\ Simple(call.vertices)
    /\ Shoelace(call.vertices) < 0
    /\ call.out = AngleSub(Frac(0, 1), TAU)

IsPolynomial(p) == "coefficients" \in DOMAIN p

Normalized(p) ==
    /\ IsPolynomial(p)
    /\ order(p) = 0 \/ p.coefficients[order(p)] # 0

\* C25: every polynomial that Polynomial::new, zero(), one(), + or * give
\* is normalized: it has no coefficient or its last coefficient is not
\* zero; new removes the trailing zero coefficients and nothing else.
C25_PolynomialsNormalized ==
    /\ Normalized(left)
    /\ Normalized(right)
    /\ Normalized(Polynomial_zero)
    /\ Normalized(Polynomial_one)
    /\ call.op \in {"add", "mul"}
          => Normalized(call.forward) /\ Normalized(call.backward)
    /\ call.op = "Polynomial::new" =>
          /\ order(left) <= Len(call.coefficients)
          /\ left.coefficients = SubSeq(call.coefficients, 1, order(left))
          /\ \A k \in (order(left) + 1)..Len(call.coefficients) :
                call.coefficients[k] = 0

C25_Witness ==
    /\ call.op = "add"
    /\ order(left) = 3
    /\ order(right) = 3
    /\ order(call.forward) = 1

\* the sum of the magnitudes of the coefficients
RECURSIVE SumAbsFrom(_, _)
SumAbsFrom(coefficients, k) ==
    IF k > Len(coefficients) THEN 0
    ELSE Abs(coefficients[k]) + SumAbsFrom(coefficients, k + 1)

SumAbs(p) == SumAbsFrom(p.coefficients, 1)

\* no sum or product of coefficients in left * right is rounded
ExactProduct == SumAbs(left) * SumAbs(right) <= 2 ^ FloatBits

Identities ==
    /\ (call.op = "add" /\ right = Polynomial_zero)
          => call.backward = left
    /\ (call.op = "mul" /\ right = Polynomial_one)
          => call.backward = left
    /\ (call.op = "mul" /\ right = Polynomial_zero)
          => call.backward = Polynomial_zero

\* C26 (as claimed): + and * give the same polynomial in both orders of
\* the operands, for all pairs, without a panic, and zero + p = p,
\* one * p = p, zero * p = zero.
C26_Commutative ==
    call.op \in {"add", "mul"} =>
        /\ IsPolynomial(call.forward)
        /\ IsPolynomial(call.backward)
        /\ call.forward = call.backward
        /\ Identities

\* C26 (amended): + gives the same polynomial in both orders for all
\* pairs; * does so whenever no coefficient sum or product is rounded;
\* neither panics, and zero + p = p, one * p = p, zero * p = zero.
C26_CommutativeWhenExact ==
    call.op \in {"add", "mul"} =>
        /\ IsPolynomial(call.forward)
        /\ IsPolynomial(call.backward)
        /\ (call.op = "add" \/ ExactProduct)
              => call.forward = call.backward
        /\ Identities

C26_Witness ==
    /\ call.op = "mul"
    /\ order(left) = 3
    /\ order(right) = 2
    /\ ExactProduct
    /\ order(call.forward) = 4
    /\ call.forward = call.backward

\* x^n, with x^0 = 1 also for x = 0
RECURSIVE Power(_, _)
Power(x, n) == IF n = 0 THEN 1 ELSE x * Power(x, n - 1)

\* the sum over i of coefficients[i] * x^i, in exact arithmetic
RECURSIVE ExactEvalFrom(_, _, _)
ExactEvalFrom(coefficients, x, k) ==
    IF k > Len(coefficients) THEN 0
    ELSE coefficients[k] * Power(x, k - 1)
            + ExactEvalFrom(coefficients, x, k + 1)

ExactEval(p, x) == ExactEvalFrom(p.coefficients, x, 1)

\* the sum over i of |coefficients[i]| * |x|^i, which bounds every value
\* that eval computes on the way
RECURSIVE MagnitudeFrom(_, _, _)
MagnitudeFrom(coefficients, x, k) ==
    IF k > Len(coefficients) THEN 0
    ELSE Abs(coefficients[k]) * Power(Abs(x), k - 1)
            + MagnitudeFrom(coefficients, x, k + 1)

MagnitudeAt(p, x) == MagnitudeFrom(p.coefficients, x, 1)

\* C27 (as claimed): eval(x) is the sum over i of coefficients[i] * x^i, 0
\* for the zero polynomial, and eval(p + q, x) = eval(p, x) + eval(q, x),
\* eval(p * q, x) = eval(p, x) * eval(q, x).
C27_EvalIsTheSum ==
    call.op = "eval" =>
        /\ call.of_left = ExactEval(left, call.at)
        /\ call.of_right = ExactEval(right, call.at)
        /\ left = Polynomial_zero => call.of_left = 0
        /\ call.of_sum = T_add(call.of_left, call.of_right)
        /\ call.of_product = T_mul(call.of_left, call.of_right)

\* C27 (amended): the same, each part whenever no value computed on the
\* way is rounded: the magnitudes of the terms add up to at most
\* 2^FloatBits.
C27_EvalIsTheSumWhenExact ==
    call.op = "eval" =>
        LET exact == 2 ^ FloatBits
            of_left == MagnitudeAt(left, call.at)
            of_right == MagnitudeAt(right, call.at)
        IN  /\ of_left <= exact => call.of_left = ExactEval(left, call.at)
            /\ of_right <= exact => call.of_right = ExactEval(right, call.at)
            /\ left = Polynomial_zero => call.of_left = 0
            /\ of_left + of_right <= exact
                  => call.of_sum = T_add(call.of_left, call.of_right)
            /\ (of_left * of_right <= exact /\ ExactProduct)
                  => call.of_product = T_mul(call.of_left, call.of_right)

C27_Witness ==
    /\ call.op = "eval"
    /\ call.at = 2
    /\ order(left) = 2
    /\ order(right) = 2
    /\ MagnitudeAt(left, call.at) * MagnitudeAt(right, call.at)
          <= 2 ^ FloatBits
    /\ ExactProduct
    /\ call.of_product = call.of_left * call.of_right
    /\ call.of_product > 0

\* C28: edges gives every edge of the polygon: n segments for n vertices,
\* the i-th from vertex i to vertex (i + 1) mod n, the last one back from
\* the last vertex to the first.
C28_EdgesAreClosed ==
    call.op = "Poly2::edges" =>
        LET v == Poly2_new(call.vertices).vertices
            n == Len(v)
        IN  /\ Len(call.out) = n
            /\ \A i \in 0..(n - 1) :
                  call.out[i + 1]
                     = LineSegment2_new(v[i + 1], v[((i + 1) % n) + 1])

\* a point with fractions as coordinates
Point(x, y) == Vec2_new(Frac(x[1], x[2]), Frac(y[1], y[2]))

\* start + (end - start) * proportion, coordinate by coordinate
Interpolated(start, end, t) ==
    Point(<<start.x * t[2] + (end.x - start.x) * t[1], t[2]>>,
          <<start.y * t[2] + (end.y - start.y) * t[1], t[2]>>)

\* C29: centre is the midpoint (start + end) / 2 of the segment;
\* lerp(start, end, p) is start + (end - start) * p, so start at p = 0 and
\* end at p = 1.
C29_CentreIsMidpoint ==
    /\ call.op = "LineSegment2::centre" =>
          call.out = Point(<<call.start.x + call.end.x, 2>>,
                           <<call.start.y + call.end.y, 2>>)
    /\ call.op = "lerp" =>
          /\ call.out = Interpolated(call.start, call.end, call.proportion)
          /\ call.proportion = Frac(0, 1)
                => call.out = Point(<<call.start.x, 1>>, <<call.start.y, 1>>)
          /\ call.proportion = Frac(1, 1)
                => call.out = Point(<<call.end.x, 1>>, <<call.end.y, 1>>)


(* ------------------- claims on the phases of a text ------------------- *)

\* the first '-'-segment after the seed segment that is empty, if any
FirstEmptySegment ==
    CHOOSE i \in 2..Len(Segments) :
        /\ Segments[i] = <<>>
        /\ \A j \in 2..(i - 1) : Segments[j] # <<>>

\* the segments before the i-th one are a seed and well-formed phases
SegmentsAcceptedBefore(i) ==
    try_from(join(SubSeq(Segments, 1, i - 1), "-") \o <<"/", "r">>).tag = "Ok"

\* C30: every phase of a Configuration that try_from returns is a non-empty
\* list; an empty '-'-segment after the seed fails with InvalidShape; and
\* phases is empty exactly when the piece before the first '/' has no
\* '-'-segment after the seed segment.
C30_PhasesNonEmpty ==
    /\ Accepted =>
          /\ \A i \in 1..Len(result.value.phases) :
                result.value.phases[i] # <<>>
          /\ result.value.phases = <<>> <=> Len(Segments) = 1
    /\ ( /\ Parsed
         /\ Len(Pieces) >= 2
         /\ \E i \in 2..Len(Segments) : Segments[i] = <<>>
         /\ SegmentsAcceptedBefore(FirstEmptySegment) )
       => result = Err(InvalidShape)

=============================================================================
